---- MODULE Spec2Model ----
(***************************************************************************)
(* Model of data/xlsx_to_sql.py: main() checks that the workbook exists,   *)
(* reads every sheet, opens the SQLite database and writes one table per   *)
(* sheet with if_exists="replace", closing the connection in a finally.    *)
(* Strings that the code manipulates character by character (sheet and     *)
(* table names) are sequences of one-character strings.                    *)
(***************************************************************************)
EXTENDS Integers, Sequences, FiniteSets, TLC

VARIABLES excel_file, dbFile, db, pc, all_sheets, conn, i, sheet_name,
          table_name, err, attempts, run, db0, dbFile0, prevOk

vars == <<excel_file, dbFile, db, pc, all_sheets, conn, i, sheet_name,
          table_name, err, attempts, run, db0, dbFile0, prevOk>>

----------------------------------------------------------------------------
(* Bounds *)
MaxSheets == 3
MaxRuns == 2
MaxNameLen == 4

----------------------------------------------------------------------------
(* Configuration constants of the script *)
EXCEL_FILE == "db.xlsx"
SQLITE_DB == "data.db"

(* Path.resolve(): the path made absolute against the working directory *)
Resolve(p) == <<"cwd", p>>

----------------------------------------------------------------------------
(* str.strip() and str.replace(" ", "_") *)
Whitespace == {" ", "\t"}

RECURSIVE LStrip(_)
LStrip(s) ==
    IF s = <<>> THEN <<>>
    ELSE IF Head(s) \in Whitespace THEN LStrip(Tail(s)) ELSE s

RECURSIVE RStrip(_)
RStrip(s) ==
    IF s = <<>> THEN <<>>
    ELSE IF s[Len(s)] \in Whitespace THEN RStrip(SubSeq(s, 1, Len(s) - 1))
         ELSE s

Strip(s) == RStrip(LStrip(s))

ReplaceChar(s, old, new) ==
    [k \in 1..Len(s) |-> IF s[k] = old THEN new ELSE s[k]]

TableName_NoStrip(name) == ReplaceChar(name, " ", "_")

TableName(name) == ReplaceChar(Strip(name), " ", "_")

----------------------------------------------------------------------------
(* Input domains *)
SheetNames == { <<"a", " ", "b">>, <<"a", "_", "b">>,
                <<" ", "A", " ">>, <<"\t", "b", " ", "c">> }

(* a DataFrame: the header row as column names, and the data rows *)
Frames == { [cols |-> <<"x", "y">>, rows |-> <<1>>],
            [cols |-> <<"y", "x">>, rows |-> <<>>] }

Sheets == { [name |-> n, cols |-> f.cols, rows |-> f.rows] :
               n \in SheetNames, f \in Frames }

DistinctNames(w) ==
    \A j, k \in 1..Len(w) : j # k => w[j].name # w[k].name

(* the ordered mapping sheet name -> DataFrame that read_excel returns *)
Workbooks ==
    UNION { { w \in [1..n -> Sheets] : DistinctNames(w) } : n \in 1..MaxSheets }

ExcelFiles ==
    { [kind |-> "missing", sheets |-> <<>>],
      [kind |-> "corrupt", sheets |-> <<>>] }
    \cup { [kind |-> "workbook", sheets |-> w] : w \in Workbooks }

(* a table name that no sheet of the input domain derives to *)
OtherName == <<"o">>

TableNames == { TableName(n) : n \in SheetNames } \cup { OtherName }

NoTable == [exists |-> FALSE, cols |-> <<>>, rows |-> <<>>]

OldTable == [exists |-> TRUE, cols |-> <<"z">>, rows |-> <<7>>]

Databases == [TableNames -> {NoTable, OldTable}]

EmptyDb == [n \in TableNames |-> NoTable]

NoErr == [kind |-> "none", path |-> <<>>]

Raise(kind) == [kind |-> kind, path |-> <<>>]

----------------------------------------------------------------------------
(* DataFrame.to_sql(table_name, conn, if_exists="replace", index=False) *)
FrameTable(df) == [exists |-> TRUE, cols |-> df.cols, rows |-> df.rows]

WriteTable_Append(d, name, df) ==
    [d EXCEPT ![name] =
        IF d[name].exists
        THEN [exists |-> TRUE, cols |-> df.cols, rows |-> d[name].rows \o df.rows]
        ELSE FrameTable(df)]

WriteTable_Recreate(d, name, df) ==
    [n \in DOMAIN d |-> IF n = name THEN FrameTable(df) ELSE NoTable]

WriteTable(d, name, df) == [d EXCEPT ![name] = FrameTable(df)]

(* what a write that raises can leave behind: nothing done, the old table  *)
(* dropped, or the new table created with its rows rolled back             *)
FailedWrite(d, name, df) ==
    { d,
      [d EXCEPT ![name] = NoTable],
      [d EXCEPT ![name] = [exists |-> TRUE, cols |-> df.cols, rows |-> <<>>]] }

----------------------------------------------------------------------------
Init ==
    /\ excel_file \in ExcelFiles
    /\ dbFile \in BOOLEAN
    /\ db \in (IF dbFile THEN Databases ELSE {EmptyDb})
    /\ pc = "start"
    /\ all_sheets = <<>>
    /\ conn = "none"
    /\ i = 0
    /\ sheet_name = <<>>
    /\ table_name = <<>>
    /\ err = NoErr
    /\ attempts = <<>>
    /\ run = 1
    /\ db0 = db
    /\ dbFile0 = dbFile
    /\ prevOk = FALSE

(* lines 12-17: excel_path.is_file() or raise FileNotFoundError *)
CheckFile_NoCheck ==
    /\ pc = "start"
    /\ pc' = "read"
    /\ UNCHANGED <<excel_file, dbFile, db, all_sheets, conn, i, sheet_name,
                   table_name, err, attempts, run, db0, dbFile0, prevOk>>

CheckFile ==
    /\ pc = "start"
    /\ IF excel_file.kind = "missing"
       THEN /\ err' = [kind |-> "FileNotFoundError", path |-> Resolve(EXCEL_FILE)]
            /\ pc' = "failed"
       ELSE /\ err' = err
            /\ pc' = "read"
    /\ UNCHANGED <<excel_file, dbFile, db, all_sheets, conn, i, sheet_name,
                   table_name, attempts, run, db0, dbFile0, prevOk>>

(* line 20: all_sheets = pd.read_excel(excel_path, sheet_name=None) *)
ReadExcel_ConnectFirst ==
    /\ pc = "read"
    /\ conn' = "open"
    /\ dbFile' = TRUE
    /\ IF excel_file.kind = "workbook"
       THEN /\ all_sheets' = excel_file.sheets
            /\ err' = err
            /\ pc' = "connect"
       ELSE /\ all_sheets' = all_sheets
            /\ err' = Raise("ParseError")
            /\ pc' = "failed"
    /\ UNCHANGED <<excel_file, db, i, sheet_name, table_name,
                   attempts, run, db0, dbFile0, prevOk>>

ReadExcel ==
    /\ pc = "read"
    /\ IF excel_file.kind = "workbook"
       THEN /\ all_sheets' = excel_file.sheets
            /\ err' = err
            /\ pc' = "connect"
       ELSE /\ all_sheets' = all_sheets
            /\ err' = Raise("ParseError")
            /\ pc' = "failed"
    /\ UNCHANGED <<excel_file, dbFile, db, conn, i, sheet_name, table_name,
                   attempts, run, db0, dbFile0, prevOk>>

(* line 23: conn = sqlite3.connect(SQLITE_DB); the file is created if absent *)
Connect ==
    /\ pc = "connect"
    /\ conn' = "open"
    /\ dbFile' = TRUE
    /\ i' = 1
    /\ pc' = "loop"
    /\ UNCHANGED <<excel_file, db, all_sheets, sheet_name, table_name, err,
                   attempts, run, db0, dbFile0, prevOk>>

(* line 23 raising (the database file cannot be opened): no connection *)
ConnectFail ==
    /\ pc = "connect"
    /\ err' = Raise("OperationalError")
    /\ pc' = "failed"
    /\ UNCHANGED <<excel_file, dbFile, db, all_sheets, conn, i, sheet_name,
                   table_name, attempts, run, db0, dbFile0, prevOk>>

(* lines 26-30 and 35-36: next item of all_sheets.items(), table_name; or  *)
(* the loop is exhausted and the success lines are printed                 *)
LoopNext_OffByOne ==
    /\ pc = "loop"
    /\ IF i < Len(all_sheets)
       THEN /\ sheet_name' = all_sheets[i].name
            /\ table_name' = TableName(all_sheets[i].name)
            /\ pc' = "write"
       ELSE /\ pc' = "finally"
            /\ UNCHANGED <<sheet_name, table_name>>
    /\ UNCHANGED <<excel_file, dbFile, db, all_sheets, conn, i, err,
                   attempts, run, db0, dbFile0, prevOk>>

LoopNext ==
    /\ pc = "loop"
    /\ IF i <= Len(all_sheets)
       THEN /\ sheet_name' = all_sheets[i].name
            /\ table_name' = TableName(all_sheets[i].name)
            /\ pc' = "write"
       ELSE /\ pc' = "finally"
            /\ UNCHANGED <<sheet_name, table_name>>
    /\ UNCHANGED <<excel_file, dbFile, db, all_sheets, conn, i, err,
                   attempts, run, db0, dbFile0, prevOk>>

(* line 33 returning: the table is replaced and committed *)
ToSqlOk ==
    /\ pc = "write"
    /\ db' = WriteTable(db, table_name, all_sheets[i])
    /\ attempts' = Append(attempts, [sheet |-> i, ok |-> TRUE])
    /\ i' = i + 1
    /\ pc' = "loop"
    /\ UNCHANGED <<excel_file, dbFile, all_sheets, conn, sheet_name,
                   table_name, err, run, db0, dbFile0, prevOk>>

(* line 33 raising: the exception leaves the loop for the finally block *)
ToSqlFail_Swallow ==
    /\ pc = "write"
    /\ db' \in FailedWrite(db, table_name, all_sheets[i])
    /\ attempts' = Append(attempts, [sheet |-> i, ok |-> FALSE])
    /\ i' = i + 1
    /\ pc' = "loop"
    /\ UNCHANGED <<excel_file, dbFile, all_sheets, conn, sheet_name,
                   table_name, err, run, db0, dbFile0, prevOk>>

ToSqlFail_Rollback ==
    /\ pc = "write"
    /\ db' = db0
    /\ attempts' = Append(attempts, [sheet |-> i, ok |-> FALSE])
    /\ err' = Raise("WriteError")
    /\ pc' = "finally"
    /\ UNCHANGED <<excel_file, dbFile, all_sheets, conn, i, sheet_name,
                   table_name, run, db0, dbFile0, prevOk>>

ToSqlFail ==
    /\ pc = "write"
    /\ db' \in FailedWrite(db, table_name, all_sheets[i])
    /\ attempts' = Append(attempts, [sheet |-> i, ok |-> FALSE])
    /\ err' = Raise("WriteError")
    /\ pc' = "finally"
    /\ UNCHANGED <<excel_file, dbFile, all_sheets, conn, i, sheet_name,
                   table_name, run, db0, dbFile0, prevOk>>

(* lines 38-39: finally: conn.close(); then return or re-raise *)
Finally_CloseOnSuccessOnly ==
    /\ pc = "finally"
    /\ conn' = IF err = NoErr THEN "closed" ELSE conn
    /\ pc' = IF err = NoErr THEN "done" ELSE "failed"
    /\ UNCHANGED <<excel_file, dbFile, db, all_sheets, i, sheet_name,
                   table_name, err, attempts, run, db0, dbFile0, prevOk>>

Finally ==
    /\ pc = "finally"
    /\ conn' = "closed"
    /\ pc' = IF err = NoErr THEN "done" ELSE "failed"
    /\ UNCHANGED <<excel_file, dbFile, db, all_sheets, i, sheet_name,
                   table_name, err, attempts, run, db0, dbFile0, prevOk>>

(* lines 41-42: the script is run again on the same workbook and database *)
RunAgain ==
    /\ pc \in {"done", "failed"}
    /\ run < MaxRuns
    /\ run' = run + 1
    /\ prevOk' = (pc = "done")
    /\ db0' = db
    /\ dbFile0' = dbFile
    /\ pc' = "start"
    /\ all_sheets' = <<>>
    /\ conn' = "none"
    /\ i' = 0
    /\ sheet_name' = <<>>
    /\ table_name' = <<>>
    /\ err' = NoErr
    /\ attempts' = <<>>
    /\ UNCHANGED <<excel_file, dbFile, db>>

Next ==
    \/ CheckFile
    \/ ReadExcel
    \/ Connect
    \/ ConnectFail
    \/ LoopNext
    \/ ToSqlOk
    \/ ToSqlFail
    \/ Finally
    \/ RunAgain

Spec == Init /\ [][Next]_vars

----------------------------------------------------------------------------
(* The name derivation of line 28 on its own: a sheet name is drawn from   *)
(* all names up to MaxNameLen characters, derived, and derived once more.  *)
Alphabet == {"a", "A", " ", "_", "\t"}

AllNames == UNION { [1..n -> Alphabet] : n \in 1..MaxNameLen }

NameInit ==
    /\ sheet_name \in AllNames
    /\ table_name = <<>>
    /\ pc = "name"
    /\ excel_file = [kind |-> "missing", sheets |-> <<>>]
    /\ dbFile = FALSE
    /\ db = EmptyDb
    /\ all_sheets = <<>>
    /\ conn = "none"
    /\ i = 0
    /\ err = NoErr
    /\ attempts = <<>>
    /\ run = 1
    /\ db0 = EmptyDb
    /\ dbFile0 = FALSE
    /\ prevOk = FALSE

DeriveName ==
    /\ pc = "name"
    /\ table_name' = TableName(sheet_name)
    /\ pc' = "named"
    /\ UNCHANGED <<excel_file, dbFile, db, all_sheets, conn, i, sheet_name,
                   err, attempts, run, db0, dbFile0, prevOk>>

DeriveAgain ==
    /\ pc = "named"
    /\ sheet_name' = table_name
    /\ table_name' = TableName(table_name)
    /\ pc' = "renamed"
    /\ UNCHANGED <<excel_file, dbFile, db, all_sheets, conn, i,
                   err, attempts, run, db0, dbFile0, prevOk>>

NameNext == DeriveName \/ DeriveAgain

NameSpec == NameInit /\ [][NameNext]_vars

----------------------------------------------------------------------------
(* Vocabulary of the properties *)
Terminal == pc \in {"done", "failed"}

Present(d) == { n \in DOMAIN d : d[n].exists }

DerivedNames(w) == { TableName(w[k].name) : k \in 1..Len(w) }

(* sheets among 1..upto whose derived name is n *)
Writers(w, n, upto) ==
    { k \in 1..Len(w) : k <= upto /\ TableName(w[k].name) = n }

Max(S) == CHOOSE m \in S : \A k \in S : k <= m

WriteFailed == pc = "failed" /\ err.kind = "WriteError"

(* t is s without its leading and trailing whitespace, spaces made "_" *)
IsTrimReplace(s, t) ==
    \E lo \in 1..(Len(s) + 1), hi \in 0..Len(s) :
        /\ lo <= hi + 1
        /\ \A k \in 1..(lo - 1) : s[k] \in Whitespace
        /\ \A k \in (hi + 1)..Len(s) : s[k] \in Whitespace
        /\ lo <= hi => (s[lo] \notin Whitespace /\ s[hi] \notin Whitespace)
        /\ Len(t) = hi - lo + 1
        /\ \A k \in 1..Len(t) :
              t[k] = IF s[lo + k - 1] = " " THEN "_" ELSE s[lo + k - 1]

----------------------------------------------------------------------------
C2_MissingSourceNoSideEffects ==
    excel_file.kind = "missing" =>
        /\ pc \in {"start", "failed"}
        /\ pc = "failed" =>
              err = [kind |-> "FileNotFoundError", path |-> Resolve(EXCEL_FILE)]
        /\ conn = "none"
        /\ all_sheets = <<>>
        /\ attempts = <<>>
        /\ db = db0
        /\ dbFile = dbFile0

C2_Witness ==
    /\ excel_file.kind = "missing"
    /\ pc = "failed"
    /\ err.kind = "FileNotFoundError"
    /\ ~dbFile

(* C3 (as stated): if the write fails on sheet k of N (k < N), the run     *)
(* ends with the tables of sheets 1..k-1 correctly written, no table for   *)
(* sheet k or any later sheet, and the connection closed.                  *)
C3_NoTableFromFailedSheetOn ==
    (WriteFailed /\ Len(attempts) < Len(all_sheets)) =>
        /\ \A j \in 1..(Len(attempts) - 1) :
              db[TableName(all_sheets[j].name)] = FrameTable(all_sheets[j])
        /\ \A j \in Len(attempts)..Len(all_sheets) :
              ~db[TableName(all_sheets[j].name)].exists
        /\ conn = "closed"

(* C3 (amended): if the write fails on sheet k of N (k < N), the run ends  *)
(* with the connection closed, no write attempted after sheet k, every     *)
(* name derived by a sheet among 1..k-1 (and not by sheet k) holding the   *)
(* content of the last such sheet, and every other name except sheet k's   *)
(* holding what it held before the run.                                    *)
C3_EarlierSheetsPersistLaterUntouched ==
    (WriteFailed /\ Len(attempts) < Len(all_sheets)) =>
        LET k == Len(attempts)
            w == all_sheets
        IN  /\ conn = "closed"
            /\ attempts[k] = [sheet |-> k, ok |-> FALSE]
            /\ \A n \in TableNames \ {TableName(w[k].name)} :
                  IF Writers(w, n, k - 1) # {}
                  THEN db[n] = FrameTable(w[Max(Writers(w, n, k - 1))])
                  ELSE db[n] = db0[n]

C3_Witness ==
    /\ WriteFailed
    /\ Len(all_sheets) = 3
    /\ Len(attempts) = 2
    /\ db[TableName(all_sheets[1].name)] = FrameTable(all_sheets[1])
    /\ db0[TableName(all_sheets[3].name)].exists
    /\ conn = "closed"

(* C4: a second successful run on the same workbook and database leaves    *)
(* the database exactly as the first successful run left it.               *)
C4_SecondRunChangesNothing ==
    (run >= 2 /\ prevOk /\ pc = "done") => db = db0

C4_Witness ==
    /\ run = 2
    /\ prevOk
    /\ pc = "done"
    /\ Len(all_sheets) = 2
    /\ \E n \in TableNames : db[n].exists /\ db[n].rows = <<1>>

(* C5: no terminal state has an open connection; after success or after a  *)
(* failed write the connection is closed when the run ends.                *)
C5_ConnectionClosedAtExit ==
    Terminal =>
        /\ conn # "open"
        /\ (pc = "done" \/ WriteFailed) => conn = "closed"

C5_Witness ==
    /\ WriteFailed
    /\ Len(attempts) = 1
    /\ conn = "closed"
    /\ dbFile

(* C6: after a successful run every sheet's table has exactly that sheet's *)
(* header as columns, in order, and as many rows as the sheet has data     *)
(* rows, regardless of the other sheets of the workbook.                   *)
C6_EverySheetHasItsTable ==
    pc = "done" =>
        \A k \in 1..Len(all_sheets) :
            /\ db[TableName(all_sheets[k].name)].exists
            /\ db[TableName(all_sheets[k].name)].cols = all_sheets[k].cols
            /\ Len(db[TableName(all_sheets[k].name)].rows)
                  = Len(all_sheets[k].rows)

(* C7: with a file that is not a valid workbook the run fails at the read  *)
(* step; the database is not opened, created or modified.                  *)
C7_ParseFailureNoDatabaseAccess ==
    excel_file.kind = "corrupt" =>
        /\ pc \in {"start", "read", "failed"}
        /\ pc = "failed" => err.kind = "ParseError"
        /\ conn = "none"
        /\ attempts = <<>>
        /\ db = db0
        /\ dbFile = dbFile0

C7_Witness ==
    /\ excel_file.kind = "corrupt"
    /\ pc = "failed"
    /\ err.kind = "ParseError"
    /\ ~dbFile

(* C8: writes are attempted in workbook order, each sheet at most once,    *)
(* sheet i only after sheets 1..i-1 succeeded, nothing after the first     *)
(* failure, and success is reported only after every sheet was written.    *)
C8_WritesInOrderOnceEach ==
    /\ \A k \in 1..Len(attempts) :
          /\ attempts[k].sheet = k
          /\ k < Len(attempts) => attempts[k].ok
    /\ pc = "write" =>
          /\ i = Len(attempts) + 1
          /\ \A k \in 1..Len(attempts) : attempts[k].ok
    /\ (attempts # <<>> /\ ~attempts[Len(attempts)].ok) =>
          pc \in {"finally", "failed"}
    /\ pc = "done" =>
          /\ Len(attempts) = Len(all_sheets)
          /\ \A k \in 1..Len(attempts) : attempts[k].ok

C8_Witness ==
    /\ pc = "done"
    /\ Len(all_sheets) = 2
    /\ attempts = << [sheet |-> 1, ok |-> TRUE], [sheet |-> 2, ok |-> TRUE] >>

(* C9: the table name is the sheet name with surrounding whitespace        *)
(* trimmed and every remaining space replaced by "_", nothing else; it     *)
(* holds no space, neither begins nor ends with whitespace, and deriving   *)
(* from a derived name returns it unchanged.                               *)
C9_TableNameIsTrimAndUnderscore ==
    /\ pc \in {"named", "renamed"} =>
          /\ IsTrimReplace(sheet_name, table_name)
          /\ \A k \in 1..Len(table_name) : table_name[k] # " "
          /\ table_name # <<>> =>
                /\ table_name[1] \notin Whitespace
                /\ table_name[Len(table_name)] \notin Whitespace
    /\ pc = "renamed" => table_name = sheet_name

C9_Witness ==
    /\ pc = "named"
    /\ sheet_name = <<"\t", "A", " ", "a">>
    /\ table_name = <<"A", "_", "a">>

(* C10: a table that exists under a name no sheet derives to is left as    *)
(* it was by every run, successful or failed.                              *)
C10_UnrelatedTablesUntouched ==
    \A n \in TableNames :
        n \notin DerivedNames(excel_file.sheets) => db[n] = db0[n]

C10_Witness ==
    /\ WriteFailed
    /\ db0[OtherName].exists
    /\ db[OtherName] = OldTable
    /\ db # db0

====
